---- MODULE Spec2Model ----
(***************************************************************************)
(* Log file rotation of vibe-logger-go: the Logger (writeEntry, Close,     *)
(* ForceRotation, UpdateConfig) and its RotationManager (ShouldRotate,     *)
(* PerformRotation, cleanupOldFiles, the async request queue and worker).  *)
(*                                                                         *)
(* Processes: the API callers c1.., one background worker w<m> per         *)
(* rotation manager m (asyncRotationWorker) and one fallback goroutine     *)
(* g<r> per rotation request r.  Every step that touches shared state (a   *)
(* mutex, the logger's file handle, the file system, a manager's fields, a *)
(* channel) is one action.  The logger is the one                          *)
(* CreateFileLoggerWithConfig returns with AutoSave and RotationEnabled    *)
(* set; Logger.UpdateConfig may drop its manager and create another.       *)
(*                                                                         *)
(* File system: the live file at basePath is liveSize (Absent when no      *)
(* file is there); a rotated file basePath.<timestamp> is disk[timestamp], *)
(* the order number of its modification time (0 when absent).  The clock   *)
(* `now` is the second-resolution timestamp of time.Now().                 *)
(***************************************************************************)
EXTENDS Integers, Sequences, FiniteSets, TLC

\* ---- bounds of the model
NumCallers == 2
MaxReq == 2
MaxMgr == 2
MaxOps == 3
MaxTime == 2
MaxFaults == 1
MaxRetention == 2
LimitBytes == 4
MaxEntry == 3
MaxOld == 1

\* ---- values drawn for the configuration and for the entries written
EntrySizes == {MaxEntry - 1, MaxEntry}
RetentionChoices == 0..MaxRetention
Configs == [RotationEnabled : BOOLEAN, MaxFileSize : {LimitBytes},
            MaxRotatedFiles : RetentionChoices]

\* MaxFileSizeLimit of config.go on the scale of the model, and every kind of
\* MaxFileSize a caller may pass: negative, unlimited, in range, over the limit.
MaxFileSizeLimit == 2 * LimitBytes
SizeChoices == {0 - 1, 0, LimitBytes, MaxFileSizeLimit + 1}
AnyConfigs == [RotationEnabled : BOOLEAN, MaxFileSize : SizeChoices,
               MaxRotatedFiles : RetentionChoices]

\* ---- processes
CallerNames == <<"c1", "c2", "c3", "c4">>
WorkerNames == <<"w1", "w2", "w3", "w4">>
GoNames == <<"g1", "g2", "g3", "g4">>
Free == "free"
Mgrs == 1..MaxMgr
Requests == 1..MaxReq
Callers == {CallerNames[i] : i \in 1..NumCallers}
Workers == {WorkerNames[m] : m \in Mgrs}
Goroutines == {GoNames[r] : r \in Requests}
Procs == Callers \cup Workers \cup Goroutines
ReqOf(g) == CHOOSE r \in Requests : GoNames[r] = g

\* ---- file system
\* Rotated files are named by the second of their rotation (Stamps); a
\* directory may also hold rotated files left by an earlier run (OldPaths).
Stamps == 1..MaxTime
OldPaths == (MaxTime + 1)..(MaxTime + MaxOld)
Paths == Stamps \cup OldPaths
Absent == -1
NoFail == 0
NoMgr == 0

VARIABLES
  pc,          \* position of every process
  call,        \* per process: op ("none", "log", "force", "update",
               \*   "rejected"), entrySize,
               \*   config (the argument of UpdateConfig), mgr (the rotation
               \*   manager whose method the process runs)
  rotErr,      \* per process: result of its last PerformRotation, "nil" or "err"
  l,           \* the Logger: mutex (holder or Free), file ("nil", "open" or
               \*   "closed", a closed *os.File), currentSize, rotationMgr,
               \*   config
  rm,          \* per manager, the RotationManager: mutex, pendingRotation,
               \*   cachedFileSize, sizeSyncDue (time.Since(lastSizeSync) >
               \*   sizeSyncInterval), config, rotatedFiles (timestamps),
               \*   asyncEnabled, chan (asyncRotationChan, capacity 1), closed
               \*   (the channel was closed), wreq (request the worker serves)
  nmgr,        \* rotation managers created so far
  req,         \* per request: resp (values in its response channel), val (the
               \*   value delivered: "none", "nil", "err"), rot (nrot at issue),
               \*   via (the path taken: "none", "queue", "full", "disabled")
  nreq,        \* number of requests issued so far
  liveSize,    \* size of the file at basePath, or Absent
  disk,        \* rotated files on disk: path -> modification order, 0 absent
  now,         \* current timestamp (second resolution)
  nrot,        \* number of physical renames performed so far
  crashed,     \* the process panicked
  opsLeft,     \* API calls the callers may still issue
  faultsLeft   \* file system faults that may still be injected

vars == <<pc, call, rotErr, l, rm, nmgr, req, nreq, liveSize, disk, now, nrot,
          crashed, opsLeft, faultsLeft>>

\* ---- sort.Slice(rotatedFiles, newest first) ------------------------------
\* The comparator: false as soon as one of the two os.Stat calls fails.
Less(a, b, d) == d[a] # 0 /\ d[b] # 0 /\ d[a] > d[b]

Swap(s, i, j) == [s EXCEPT ![i] = s[j], ![j] = s[i]]

\* sort.Slice sorts a slice of at most 12 elements by insertion sort.
RECURSIVE InsertInner(_, _, _)
InsertInner(s, j, d) ==
  IF j > 1 /\ Less(s[j], s[j - 1], d)
  THEN InsertInner(Swap(s, j, j - 1), j - 1, d)
  ELSE s

RECURSIVE InsertOuter(_, _, _)
InsertOuter(s, i, d) ==
  IF i > Len(s) THEN s ELSE InsertOuter(InsertInner(s, i, d), i + 1, d)

SortNewestFirst(s, d) == InsertOuter(s, 2, d)

\* ---- cleanupOldFiles ------------------------------------------------------
\* os.Remove(f): fails when f is not on disk or when the file system refuses
\* (failPath names the file whose removal is refused, NoFail: none).
RemoveFails(f, d, failPath) == d[f] = 0 \/ f = failPath

\* The loop over filesToDelete = s[k..]: stops at the first failing os.Remove.
RECURSIVE RemoveLoop(_, _, _, _)
RemoveLoop(s, k, d, failPath) ==
  IF k > Len(s) THEN [disk |-> d, err |-> FALSE]
  ELSE IF RemoveFails(s[k], d, failPath) THEN [disk |-> d, err |-> TRUE]
  ELSE RemoveLoop(s, k + 1, [d EXCEPT ![s[k]] = 0], failPath)

\* The list is truncated only when every removal succeeded.
TruncateAfter(sorted, max, err) == IF err THEN sorted ELSE SubSeq(sorted, 1, max)

cleanupOldFiles(files, d, max, failPath) ==
  IF max <= 0 THEN [files |-> files, disk |-> d, err |-> FALSE]
  ELSE LET sorted == SortNewestFirst(files, d)
       IN IF Len(sorted) > max
          THEN LET r == RemoveLoop(sorted, max + 1, d, failPath)
               IN [files |-> TruncateAfter(sorted, max, r.err),
                   disk |-> r.disk, err |-> r.err]
          ELSE [files |-> sorted, disk |-> d, err |-> FALSE]

\* The removals the file system may refuse in one cleanup pass: none, or (within
\* the fault budget) one file that is on disk.
RefusablePaths == {NoFail} \cup {t \in Paths : disk[t] # 0 /\ faultsLeft > 0}

\* A refusal counts as a fault only when the pass meets it.
MeetsRefusal(files, d, max, failPath) ==
  /\ failPath # NoFail
  /\ cleanupOldFiles(files, d, max, failPath).err
  /\ ~cleanupOldFiles(files, d, max, NoFail).err

\* ---- scanExistingRotatedFiles --------------------------------------------
\* os.ReadDir lists the directory by file name, here by timestamp; the list is
\* then sorted newest first.
RECURSIVE DirListing(_, _)
DirListing(t, d) ==
  IF t \notin Paths THEN <<>>
  ELSE (IF d[t] # 0 THEN <<t>> ELSE <<>>) \o DirListing(t + 1, d)

scanExistingRotatedFiles(d) == SortNewestFirst(DirListing(1, d), d)

\* ---- syncFileSize / ShouldRotate -----------------------------------------
\* os.Stat(basePath) succeeds iff the live file exists.
SyncedSize(cached, live) == IF live # Absent THEN live ELSE cached

HighWater(max) == (max * 8) \div 10

\* A ShouldRotate without the test for an unlimited file size.
ShouldRotateAnyLimit(m, n) ==
  [rotate |-> ~(~rm[m].config.RotationEnabled \/ rm[m].pendingRotation)
              /\ rm[m].cachedFileSize + n > rm[m].config.MaxFileSize,
   cached |-> rm[m].cachedFileSize, cur |-> l.currentSize,
   due |-> rm[m].sizeSyncDue]

\* A ShouldRotate that does not look at pendingRotation.
ShouldRotateWhilePending(m, n) ==
  IF ~rm[m].config.RotationEnabled \/ rm[m].config.MaxFileSize <= 0
  THEN [rotate |-> FALSE, cached |-> rm[m].cachedFileSize, cur |-> l.currentSize,
        due |-> rm[m].sizeSyncDue]
  ELSE LET c1 == IF rm[m].sizeSyncDue
                 THEN SyncedSize(rm[m].cachedFileSize, liveSize)
                 ELSE rm[m].cachedFileSize
       IN [rotate |-> c1 + n > rm[m].config.MaxFileSize, cached |-> c1,
           cur |-> l.currentSize, due |-> FALSE]

\* ShouldRotate(newEntrySize) of manager m: the decision and the fields it
\* leaves behind (cached: rm.cachedFileSize, cur: logger.currentSize, due:
\* whether lastSizeSync is still older than sizeSyncInterval).
ShouldRotate(m, n) ==
  IF ~rm[m].config.RotationEnabled \/ rm[m].pendingRotation
     \/ rm[m].config.MaxFileSize <= 0
  THEN [rotate |-> FALSE, cached |-> rm[m].cachedFileSize, cur |-> l.currentSize,
        due |-> rm[m].sizeSyncDue]
  ELSE LET max == rm[m].config.MaxFileSize
           c1 == IF rm[m].sizeSyncDue
                 THEN SyncedSize(rm[m].cachedFileSize, liveSize)
                 ELSE rm[m].cachedFileSize
           u1 == IF rm[m].sizeSyncDue THEN SyncedSize(l.currentSize, liveSize)
                 ELSE l.currentSize
           again == c1 + n > max /\ c1 > HighWater(max)
           c2 == IF again THEN SyncedSize(c1, liveSize) ELSE c1
           u2 == IF again THEN SyncedSize(u1, liveSize) ELSE u1
       IN [rotate |-> c2 + n > max, cached |-> c2, cur |-> u2,
           due |-> FALSE]

\* A validation that accepts every config as it is.
ValidateAcceptsAll(cfg) == [ok |-> TRUE, cfg |-> cfg]

\* ---- LoggerConfig.Validate -------------------------------------------------
\* A negative MaxFileSize becomes 0 (unlimited); a MaxFileSize over
\* MaxFileSizeLimit is an error.
Validate(cfg) ==
  LET c == [cfg EXCEPT !.MaxFileSize = IF @ < 0 THEN 0 ELSE @]
  IN [ok |-> c.MaxFileSize <= MaxFileSizeLimit, cfg |-> c]

\* ---- NewRotationManager --------------------------------------------------
\* The manager's fields after construction: the size cache synced with the
\* live file, the rotated files found on disk, async rotation on, an empty
\* request channel.
NewRotationManager(cfg, live, d) ==
  [mutex |-> Free, pendingRotation |-> FALSE,
   cachedFileSize |-> SyncedSize(0, live), sizeSyncDue |-> FALSE,
   config |-> cfg, rotatedFiles |-> scanExistingRotatedFiles(d),
   asyncEnabled |-> TRUE, chan |-> <<>>, closed |-> FALSE, wreq |-> 0]

\* ---- CreateFileLoggerWithConfig ------------------------------------------
\* A new log file in a directory whose rotated files are d.
\* NewLoggerWithConfig calls config.Validate() and drops its error; the manager
\* and its worker exist when config.RotationEnabled.  The callers may issue
\* `calls` API calls and the file system may fail `faults` times.
CreateFileLoggerIn(d, config, calls, faults) ==
  LET cfg == Validate(config).cfg
      first == IF cfg.RotationEnabled THEN 1 ELSE NoMgr
  IN /\ pc = [p \in Procs |-> IF p \in Callers THEN "idle"
                              ELSE IF p = WorkerNames[1] /\ cfg.RotationEnabled
                              THEN "w_idle" ELSE "off"]
     /\ call = [p \in Procs |->
                 [op |-> "none", entrySize |-> 0, config |-> cfg,
                  mgr |-> IF p \in Workers
                          THEN CHOOSE m \in Mgrs : WorkerNames[m] = p
                          ELSE NoMgr]]
     /\ rm = [m \in Mgrs |-> NewRotationManager(cfg, 0, d)]
     /\ l = [mutex |-> Free, file |-> "open", currentSize |-> 0,
             rotationMgr |-> first, config |-> cfg]
     /\ rotErr = [p \in Procs |-> "nil"]
     /\ nmgr = first
     /\ req = [r \in Requests |-> [resp |-> 0, val |-> "none", rot |-> 0, via |-> "none"]]
     /\ nreq = 0
     /\ liveSize = 0
     /\ disk = d
     /\ now = 1
     /\ nrot = 0
     /\ crashed = FALSE
     /\ opsLeft = calls
     /\ faultsLeft = faults

\* The same in a directory without rotated files.
CreateFileLoggerWithConfig(config, calls, faults) ==
  CreateFileLoggerIn([t \in Paths |-> 0], config, calls, faults)

\* The state after CreateFileLoggerWithConfig with rotation enabled.
StartState(calls, faults) ==
  \E cfg \in Configs :
    cfg.RotationEnabled /\ CreateFileLoggerWithConfig(cfg, calls, faults)

Init == StartState(MaxOps, MaxFaults)

\* A caller may start an API call.
CanCall(c) == ~crashed /\ pc[c] = "idle" /\ opsLeft > 0

\* The manager whose method process p runs.
M(p) == call[p].mgr

\* The live file after n bytes went through the logger's open handle: the
\* handle follows its file when a rename moved it away from basePath.
Appended(n) == IF liveSize = Absent THEN liveSize ELSE liveSize + n

\* ---- Logger.Log -> writeEntry --------------------------------------------
\* l.mutex.Lock() at the head of writeEntry.
Log(c, n) ==
  /\ CanCall(c)
  /\ l.mutex = Free
  /\ l' = [l EXCEPT !.mutex = c]
  /\ pc' = [pc EXCEPT ![c] = "we_check"]
  /\ call' = [call EXCEPT ![c].op = "log", ![c].entrySize = n]
  /\ opsLeft' = opsLeft - 1
  /\ UNCHANGED <<rotErr, rm, nmgr, req, nreq, liveSize, disk, now, nrot, crashed,
                 faultsLeft>>

\* `if l.config.AutoSave && l.file != nil`, then
\* `l.rotationMgr != nil && l.rotationMgr.ShouldRotate(entrySize)`.
WriteEntryCheck(c) ==
  /\ ~crashed
  /\ pc[c] = "we_check"
  /\ IF l.file = "nil"
     THEN /\ pc' = [pc EXCEPT ![c] = "idle"]
          /\ l' = [l EXCEPT !.mutex = Free]
          /\ UNCHANGED <<call, rm>>
     ELSE IF l.rotationMgr = NoMgr
     THEN /\ pc' = [pc EXCEPT ![c] = "we_write"]
          /\ UNCHANGED <<call, l, rm>>
     ELSE LET m == l.rotationMgr
              sr == ShouldRotate(m, call[c].entrySize)
          IN /\ pc' = [pc EXCEPT ![c] = IF sr.rotate THEN "rot_lock" ELSE "we_write"]
             /\ call' = [call EXCEPT ![c].mgr = m]
             /\ rm' = [rm EXCEPT ![m].cachedFileSize = sr.cached,
                                 ![m].sizeSyncDue = sr.due]
             /\ l' = [l EXCEPT !.currentSize = sr.cur]
  /\ UNCHANGED <<rotErr, nmgr, req, nreq, liveSize, disk, now, nrot, crashed,
                 opsLeft, faultsLeft>>

\* l.file.Write(jsonData): the entry without its newline; a write to a closed
\* file fails and writeEntry returns the error.
WriteJson(c) ==
  /\ ~crashed
  /\ pc[c] = "we_write"
  /\ IF l.file = "open"
     THEN /\ liveSize' = Appended(call[c].entrySize - 1)
          /\ pc' = [pc EXCEPT ![c] = "we_nl"]
          /\ UNCHANGED l
     ELSE /\ pc' = [pc EXCEPT ![c] = "idle"]
          /\ l' = [l EXCEPT !.mutex = Free]
          /\ UNCHANGED liveSize
  /\ UNCHANGED <<call, rotErr, rm, nmgr, req, nreq, disk, now, nrot, crashed,
                 opsLeft, faultsLeft>>

\* l.file.WriteString("\n"), l.currentSize += entrySize, the deferred Unlock.
WriteNewline(c) ==
  /\ ~crashed
  /\ pc[c] = "we_nl"
  /\ IF l.file = "open"
     THEN /\ liveSize' = Appended(1)
          /\ l' = [l EXCEPT !.mutex = Free, !.currentSize = @ + call[c].entrySize]
     ELSE /\ l' = [l EXCEPT !.mutex = Free]
          /\ UNCHANGED liveSize
  /\ pc' = [pc EXCEPT ![c] = "idle"]
  /\ UNCHANGED <<call, rotErr, rm, nmgr, req, nreq, disk, now, nrot, crashed,
                 opsLeft, faultsLeft>>

\* ---- Logger.ForceRotation ------------------------------------------------
\* Under l.mutex: an error when l.rotationMgr is nil, PerformRotation otherwise.
ForceRotation(c) ==
  /\ CanCall(c)
  /\ l.mutex = Free
  /\ IF l.rotationMgr = NoMgr
     THEN /\ rotErr' = [rotErr EXCEPT ![c] = "err"]
          /\ UNCHANGED <<pc, l>>
          /\ call' = [call EXCEPT ![c].op = "force"]
     ELSE /\ l' = [l EXCEPT !.mutex = c]
          /\ pc' = [pc EXCEPT ![c] = "rot_lock"]
          /\ call' = [call EXCEPT ![c].op = "force", ![c].mgr = l.rotationMgr]
          /\ UNCHANGED rotErr
  /\ opsLeft' = opsLeft - 1
  /\ UNCHANGED <<rm, nmgr, req, nreq, liveSize, disk, now, nrot, crashed,
                 faultsLeft>>

\* ---- RotationManager.PerformRotation -------------------------------------
\* Where PerformRotation returns to: writeEntry goes on to write when the
\* rotation succeeded and returns the error otherwise; ForceRotation returns;
\* the worker and the fallback goroutines go on to send the result.
AfterRotation(p, e) ==
  IF p \in Callers
  THEN IF call[p].op = "log" /\ e = "nil" THEN "we_write" ELSE "idle"
  ELSE IF p \in Workers THEN "w_send" ELSE "g_send"

\* l.mutex after the return: writeEntry and ForceRotation release it (deferred
\* Unlock) when they return.
MutexAfterRotation(p, e) ==
  IF p \in Callers /\ AfterRotation(p, e) = "idle" THEN Free ELSE l.mutex

\* The deferred `rm.pendingRotation = false` and rm.mutex.Unlock().
Released(r) == [r EXCEPT !.mutex = Free, !.pendingRotation = FALSE]

\* rm.mutex.Lock(); `if rm.pendingRotation { return nil }`; pendingRotation = true.
RotLock(p) ==
  /\ ~crashed
  /\ pc[p] = "rot_lock"
  /\ rm[M(p)].mutex = Free
  /\ IF rm[M(p)].pendingRotation
     THEN /\ pc' = [pc EXCEPT ![p] = AfterRotation(p, "nil")]
          /\ rotErr' = [rotErr EXCEPT ![p] = "nil"]
          /\ l' = [l EXCEPT !.mutex = MutexAfterRotation(p, "nil")]
          /\ UNCHANGED rm
     ELSE /\ rm' = [rm EXCEPT ![M(p)].mutex = p, ![M(p)].pendingRotation = TRUE]
          /\ pc' = [pc EXCEPT ![p] = "rot_close"]
          /\ UNCHANGED <<rotErr, l>>
  /\ UNCHANGED <<call, nmgr, req, nreq, liveSize, disk, now, nrot, crashed,
                 opsLeft, faultsLeft>>

\* `if rm.logger.file != nil { rm.logger.file.Close() }`: closing a closed
\* *os.File is an error, which ends the rotation.
RotClose(p) ==
  /\ ~crashed
  /\ pc[p] = "rot_close"
  /\ IF l.file = "closed"
     THEN /\ pc' = [pc EXCEPT ![p] = AfterRotation(p, "err")]
          /\ rotErr' = [rotErr EXCEPT ![p] = "err"]
          /\ l' = [l EXCEPT !.mutex = MutexAfterRotation(p, "err")]
          /\ rm' = [rm EXCEPT ![M(p)] = Released(@)]
     ELSE /\ l' = [l EXCEPT !.file = IF @ = "open" THEN "closed" ELSE @]
          /\ pc' = [pc EXCEPT ![p] = "rot_rename"]
          /\ UNCHANGED <<rotErr, rm>>
  /\ UNCHANGED <<call, nmgr, req, nreq, liveSize, disk, now, nrot, crashed,
                 opsLeft, faultsLeft>>

\* os.Rename(basePath, basePath.<now>) and the append to rm.rotatedFiles.  The
\* rename fails when no file is at basePath or when the file system refuses
\* (refused); it replaces a rotated file of the same second.
RotRename(p, refused) ==
  /\ ~crashed
  /\ pc[p] = "rot_rename"
  /\ refused => faultsLeft > 0 /\ liveSize # Absent
  /\ faultsLeft' = IF refused THEN faultsLeft - 1 ELSE faultsLeft
  /\ IF refused \/ liveSize = Absent
     THEN /\ pc' = [pc EXCEPT ![p] = AfterRotation(p, "err")]
          /\ rotErr' = [rotErr EXCEPT ![p] = "err"]
          /\ l' = [l EXCEPT !.mutex = MutexAfterRotation(p, "err")]
          /\ rm' = [rm EXCEPT ![M(p)] = Released(@)]
          /\ UNCHANGED <<liveSize, disk, nrot>>
     ELSE /\ disk' = [disk EXCEPT ![now] = nrot + 1]
          /\ liveSize' = Absent
          /\ nrot' = nrot + 1
          /\ rm' = [rm EXCEPT ![M(p)].rotatedFiles = Append(@, now)]
          /\ pc' = [pc EXCEPT ![p] = "rot_cleanup"]
          /\ UNCHANGED <<rotErr, l>>
  /\ UNCHANGED <<call, nmgr, req, nreq, now, crashed, opsLeft>>

\* rm.cleanupOldFiles(); on error the warning is logged through rm.logger.Warn.
RotCleanup(p, failPath) ==
  /\ ~crashed
  /\ pc[p] = "rot_cleanup"
  /\ LET m == M(p)
         max == rm[m].config.MaxRotatedFiles
         r == cleanupOldFiles(rm[m].rotatedFiles, disk, max, failPath)
     IN /\ failPath # NoFail => MeetsRefusal(rm[m].rotatedFiles, disk, max, failPath)
        /\ rm' = [rm EXCEPT ![m].rotatedFiles = r.files]
        /\ disk' = r.disk
        /\ pc' = [pc EXCEPT ![p] = IF r.err THEN "rot_warn" ELSE "rot_open"]
  /\ faultsLeft' = IF failPath # NoFail THEN faultsLeft - 1 ELSE faultsLeft
  /\ UNCHANGED <<call, rotErr, l, nmgr, req, nreq, liveSize, now, nrot, crashed,
                 opsLeft>>

\* What writeEntry does with the warning entry once it holds l.mutex: nothing
\* when l.file is nil; no rotation, because ShouldRotate of the rotating manager
\* answers false (pendingRotation); then the write, which fails on a closed file.
WarnWrites == l.file = "open"

\* rm.logger.Warn(...) -> Log -> writeEntry: l.mutex.Lock(), which blocks while
\* the logger's mutex is held, also when this very process holds it; the mutex
\* is released when writeEntry returns.  (The warning of a manager that the
\* logger has replaced by another one is not followed.)
RotWarn(p) ==
  /\ ~crashed
  /\ pc[p] = "rot_warn"
  /\ l.mutex = Free
  /\ l.rotationMgr \in {M(p), NoMgr}
  /\ liveSize' = IF WarnWrites THEN Appended(MaxEntry) ELSE liveSize
  /\ l' = [l EXCEPT !.currentSize = IF WarnWrites THEN @ + MaxEntry ELSE @]
  /\ pc' = [pc EXCEPT ![p] = "rot_open"]
  /\ UNCHANGED <<call, rotErr, rm, nmgr, req, nreq, disk, now, nrot, crashed,
                 opsLeft, faultsLeft>>

\* os.OpenFile(basePath, O_CREATE|O_WRONLY|O_APPEND) and rm.logger.file = newFile.
RotOpen(p, refused) ==
  /\ ~crashed
  /\ pc[p] = "rot_open"
  /\ refused => faultsLeft > 0
  /\ faultsLeft' = IF refused THEN faultsLeft - 1 ELSE faultsLeft
  /\ IF refused
     THEN /\ pc' = [pc EXCEPT ![p] = AfterRotation(p, "err")]
          /\ rotErr' = [rotErr EXCEPT ![p] = "err"]
          /\ l' = [l EXCEPT !.mutex = MutexAfterRotation(p, "err")]
          /\ rm' = [rm EXCEPT ![M(p)] = Released(@)]
          /\ UNCHANGED liveSize
     ELSE /\ liveSize' = IF liveSize = Absent THEN 0 ELSE liveSize
          /\ l' = [l EXCEPT !.file = "open"]
          /\ pc' = [pc EXCEPT ![p] = "rot_fin"]
          /\ UNCHANGED <<rotErr, rm>>
  /\ UNCHANGED <<call, nmgr, req, nreq, disk, now, nrot, crashed, opsLeft>>

\* rm.logger.currentSize = 0, rm.cachedFileSize = 0, rm.lastSizeSync = now,
\* `return nil` and the deferred pendingRotation = false and rm.mutex.Unlock().
RotFinish(p) ==
  /\ ~crashed
  /\ pc[p] = "rot_fin"
  /\ l' = [l EXCEPT !.currentSize = 0, !.mutex = MutexAfterRotation(p, "nil")]
  /\ rm' = [rm EXCEPT ![M(p)] = [Released(@) EXCEPT !.cachedFileSize = 0,
                                                     !.sizeSyncDue = FALSE]]
  /\ pc' = [pc EXCEPT ![p] = AfterRotation(p, "nil")]
  /\ rotErr' = [rotErr EXCEPT ![p] = "nil"]
  /\ UNCHANGED <<call, nmgr, req, nreq, liveSize, disk, now, nrot, crashed,
                 opsLeft, faultsLeft>>

\* ---- PerformRotationAsync / ForceRotationAsync ---------------------------
\* The callers reach the manager through the logger's rotationMgr field.
Attached(c) == CanCall(c) /\ l.rotationMgr # NoMgr

\* The request either enters asyncRotationChan (a free buffer slot), or a
\* goroutine is started that runs PerformRotation and sends the result.  A send
\* on the closed channel panics.
Submit(c, m, viaQueue) ==
  LET r == nreq + 1
  IN /\ nreq' = r
     /\ req' = [req EXCEPT ![r].rot = nrot,
                            ![r].via = IF ~viaQueue THEN "disabled"
                                       ELSE IF Len(rm[m].chan) < 1 THEN "queue"
                                       ELSE "full"]
     /\ opsLeft' = opsLeft - 1
     /\ IF viaQueue /\ rm[m].closed
        THEN /\ crashed' = TRUE
             /\ UNCHANGED <<pc, call, rm>>
        ELSE IF viaQueue /\ Len(rm[m].chan) < 1
        THEN /\ rm' = [rm EXCEPT ![m].chan = Append(@, r)]
             /\ UNCHANGED <<pc, call, crashed>>
        ELSE /\ pc' = [pc EXCEPT ![GoNames[r]] = "rot_lock"]
             /\ call' = [call EXCEPT ![GoNames[r]].mgr = m]
             /\ UNCHANGED <<rm, crashed>>
     /\ UNCHANGED <<rotErr, l, nmgr, liveSize, disk, now, nrot, faultsLeft>>

PerformRotationAsync(c) ==
  /\ Attached(c)
  /\ nreq < MaxReq
  /\ Submit(c, l.rotationMgr, rm[l.rotationMgr].asyncEnabled)

ForceRotationAsync(c) ==
  /\ Attached(c)
  /\ nreq < MaxReq
  /\ Submit(c, l.rotationMgr, TRUE)

\* ---- asyncRotationWorker -------------------------------------------------
\* `for request := range rm.asyncRotationChan`: take the next request.
WorkerReceive(w) ==
  /\ ~crashed
  /\ pc[w] = "w_idle"
  /\ rm[M(w)].chan # <<>>
  /\ rm' = [rm EXCEPT ![M(w)].wreq = Head(rm[M(w)].chan), ![M(w)].chan = Tail(@)]
  /\ pc' = [pc EXCEPT ![w] = "rot_lock"]
  /\ UNCHANGED <<call, rotErr, l, nmgr, req, nreq, liveSize, disk, now, nrot,
                 crashed, opsLeft, faultsLeft>>

\* The range loop ends when the channel is closed and drained.
WorkerExit(w) ==
  /\ ~crashed
  /\ pc[w] = "w_idle"
  /\ rm[M(w)].chan = <<>>
  /\ rm[M(w)].closed
  /\ pc' = [pc EXCEPT ![w] = "w_exit"]
  /\ UNCHANGED <<call, rotErr, l, rm, nmgr, req, nreq, liveSize, disk, now, nrot,
                 crashed, opsLeft, faultsLeft>>

\* `select { case request.response <- err: default: }` on the one-slot channel.
WorkerSend(w) ==
  /\ ~crashed
  /\ pc[w] = "w_send"
  /\ LET r == rm[M(w)].wreq
     IN req' = IF req[r].resp = 0
               THEN [req EXCEPT ![r].resp = 1, ![r].val = rotErr[w]]
               ELSE req
  /\ rm' = [rm EXCEPT ![M(w)].wreq = 0]
  /\ pc' = [pc EXCEPT ![w] = "w_idle"]
  /\ UNCHANGED <<call, rotErr, l, nmgr, nreq, liveSize, disk, now, nrot, crashed,
                 opsLeft, faultsLeft>>

\* The fallback goroutine's `response <- rm.PerformRotation()`: blocks while
\* the one-slot channel is full.
GoSend(g) ==
  /\ ~crashed
  /\ pc[g] = "g_send"
  /\ req[ReqOf(g)].resp = 0
  /\ req' = [req EXCEPT ![ReqOf(g)].resp = 1, ![ReqOf(g)].val = rotErr[g]]
  /\ pc' = [pc EXCEPT ![g] = "done"]
  /\ UNCHANGED <<call, rotErr, l, rm, nmgr, nreq, liveSize, disk, now, nrot,
                 crashed, opsLeft, faultsLeft>>

\* ---- SetAsyncRotation, RotationManager.Close -----------------------------
\* Under rm.mutex: rm.asyncEnabled = enabled.
SetAsyncRotation(c, enabled) ==
  /\ Attached(c)
  /\ rm[l.rotationMgr].mutex = Free
  /\ rm' = [rm EXCEPT ![l.rotationMgr].asyncEnabled = enabled]
  /\ opsLeft' = opsLeft - 1
  /\ UNCHANGED <<pc, call, rotErr, l, nmgr, req, nreq, liveSize, disk, now, nrot,
                 crashed, faultsLeft>>

\* close(rm.asyncRotationChan): closing a closed channel panics.
ManagerClose(c) ==
  /\ Attached(c)
  /\ IF rm[l.rotationMgr].closed
     THEN /\ crashed' = TRUE
          /\ UNCHANGED rm
     ELSE /\ rm' = [rm EXCEPT ![l.rotationMgr].closed = TRUE]
          /\ UNCHANGED crashed
  /\ opsLeft' = opsLeft - 1
  /\ UNCHANGED <<pc, call, rotErr, l, nmgr, req, nreq, liveSize, disk, now, nrot,
                 faultsLeft>>

\* ---- Logger.Close --------------------------------------------------------
\* Under l.mutex: close the file if there is one and set l.file = nil.
LoggerClose(c) ==
  /\ CanCall(c)
  /\ l.mutex = Free
  /\ l' = [l EXCEPT !.file = "nil"]
  /\ opsLeft' = opsLeft - 1
  /\ UNCHANGED <<pc, call, rotErr, rm, nmgr, req, nreq, liveSize, disk, now, nrot,
                 crashed, faultsLeft>>

\* ---- Logger.UpdateConfig -> RotationManager.UpdateConfig -----------------
\* Under l.mutex: Validate (an invalid config is rejected and nothing changes),
\* l.config = config, then rotation is enabled (a new manager, whose worker
\* starts), disabled (l.rotationMgr = nil; the manager is not closed) or
\* reconfigured.
LoggerUpdateConfig(c, config) ==
  /\ CanCall(c)
  /\ l.mutex = Free
  /\ opsLeft' = opsLeft - 1
  /\ LET cfg == Validate(config).cfg
     IN IF ~Validate(config).ok
        THEN /\ call' = [call EXCEPT ![c].op = "rejected"]
             /\ UNCHANGED <<pc, l, rm, nmgr>>
        ELSE IF cfg.RotationEnabled /\ l.rotationMgr = NoMgr
        THEN /\ nmgr < MaxMgr
             /\ nmgr' = nmgr + 1
             /\ rm' = [rm EXCEPT ![nmgr + 1] = NewRotationManager(cfg, liveSize, disk)]
             /\ l' = [l EXCEPT !.rotationMgr = nmgr + 1, !.config = cfg,
                               !.currentSize = SyncedSize(@, liveSize)]
             /\ pc' = [pc EXCEPT ![WorkerNames[nmgr + 1]] = "w_idle"]
             /\ call' = [call EXCEPT ![c].op = "update", ![c].config = cfg]
        ELSE IF ~cfg.RotationEnabled /\ l.rotationMgr # NoMgr
        THEN /\ l' = [l EXCEPT !.rotationMgr = NoMgr, !.config = cfg]
             /\ call' = [call EXCEPT ![c].op = "update", ![c].config = cfg]
             /\ UNCHANGED <<pc, rm, nmgr>>
        ELSE IF l.rotationMgr # NoMgr
        THEN /\ l' = [l EXCEPT !.mutex = c, !.config = cfg]
             /\ pc' = [pc EXCEPT ![c] = "uc_rm"]
             /\ call' = [call EXCEPT ![c].op = "update", ![c].config = cfg,
                                     ![c].mgr = l.rotationMgr]
             /\ UNCHANGED <<rm, nmgr>>
        ELSE /\ l' = [l EXCEPT !.config = cfg]
             /\ call' = [call EXCEPT ![c].op = "update", ![c].config = cfg]
             /\ UNCHANGED <<pc, rm, nmgr>>
  /\ UNCHANGED <<rotErr, req, nreq, liveSize, disk, now, nrot, crashed, faultsLeft>>

\* rm.UpdateConfig: rm.mutex.Lock(), rm.config = config, cleanupOldFiles().
\* On a cleanup error rm.logger.Warn -> writeEntry -> l.mutex.Lock() is called
\* with l.mutex held by this very call: the process stays at "uc_warn" holding
\* both mutexes.  Otherwise both are released and UpdateConfig returns.
ManagerUpdateConfig(c, failPath) ==
  /\ ~crashed
  /\ pc[c] = "uc_rm"
  /\ rm[M(c)].mutex = Free
  /\ LET m == M(c)
         max == call[c].config.MaxRotatedFiles
         r == cleanupOldFiles(rm[m].rotatedFiles, disk, max, failPath)
     IN /\ failPath # NoFail => MeetsRefusal(rm[m].rotatedFiles, disk, max, failPath)
        /\ rm' = [rm EXCEPT ![m].config = call[c].config,
                            ![m].rotatedFiles = r.files,
                            ![m].mutex = IF r.err THEN c ELSE Free]
        /\ disk' = r.disk
        /\ pc' = [pc EXCEPT ![c] = IF r.err THEN "uc_warn" ELSE "idle"]
        /\ l' = [l EXCEPT !.mutex = IF r.err THEN @ ELSE Free]
  /\ faultsLeft' = IF failPath # NoFail THEN faultsLeft - 1 ELSE faultsLeft
  /\ UNCHANGED <<call, rotErr, nmgr, req, nreq, liveSize, now, nrot, crashed,
                 opsLeft>>

\* ---- the clock -----------------------------------------------------------
\* A second passes; for the managers in stale, lastSizeSync has become older
\* than sizeSyncInterval.
Tick(stale) ==
  /\ ~crashed
  /\ now < MaxTime
  /\ now' = now + 1
  /\ rm' = [m \in Mgrs |-> IF m \in stale THEN [rm[m] EXCEPT !.sizeSyncDue = TRUE]
                           ELSE rm[m]]
  /\ UNCHANGED <<pc, call, rotErr, l, nmgr, req, nreq, liveSize, disk, nrot,
                 crashed, opsLeft, faultsLeft>>

\* ---- the specification ---------------------------------------------------
WriteStep(c) ==
  \/ \E n \in EntrySizes : Log(c, n)
  \/ WriteEntryCheck(c)
  \/ WriteJson(c)
  \/ WriteNewline(c)

AsyncCall(c) ==
  \/ PerformRotationAsync(c)
  \/ ForceRotationAsync(c)

ConfigCall(c) ==
  \/ \E cfg \in Configs : LoggerUpdateConfig(c, cfg)
  \/ \E f \in RefusablePaths : ManagerUpdateConfig(c, f)

RotationStep(p) ==
  \/ RotLock(p)
  \/ RotClose(p)
  \/ \E refused \in BOOLEAN : RotRename(p, refused)
  \/ \E f \in RefusablePaths : RotCleanup(p, f)
  \/ RotWarn(p)
  \/ \E refused \in BOOLEAN : RotOpen(p, refused)
  \/ RotFinish(p)

\* The steps that serve rotations: PerformRotation in any process, the workers'
\* loop bodies, the fallback goroutines.
Serving ==
  \/ \E p \in Procs : RotationStep(p)
  \/ \E w \in Workers : WorkerReceive(w)
  \/ \E w \in Workers : WorkerSend(w)
  \/ \E g \in Goroutines : GoSend(g)

Background ==
  \/ Serving
  \/ \E w \in Workers : WorkerExit(w)

Next ==
  \/ \E c \in Callers : WriteStep(c)
  \/ \E c \in Callers : ForceRotation(c)
  \/ \E c \in Callers : AsyncCall(c)
  \/ \E c \in Callers, b \in BOOLEAN : SetAsyncRotation(c, b)
  \/ \E c \in Callers : ManagerClose(c)
  \/ \E c \in Callers : LoggerClose(c)
  \/ \E c \in Callers : ConfigCall(c)
  \/ Background
  \/ \E stale \in SUBSET (1..nmgr) : Tick(stale)

Spec == Init /\ [][Next]_vars

\* ==== the claims ==========================================================

\* ---- C1 ------------------------------------------------------------------
\* The retention limit holds for manager m: with MaxRotatedFiles > 0 the list
\* of rotated files has at most MaxRotatedFiles entries.
RetentionHolds(m) ==
  rm[m].config.MaxRotatedFiles > 0 =>
    Len(rm[m].rotatedFiles) <= rm[m].config.MaxRotatedFiles

\* A step that is the cleanup pass of process p, run by a rotation or by
\* UpdateConfig.
CleanupPass(p) ==
  \E f \in RefusablePaths : RotCleanup(p, f) \/ ManagerUpdateConfig(p, f)

\* C1: after every cleanup pass, run by PerformRotation or by UpdateConfig, the
\* list of rotated files has at most MaxRotatedFiles entries whenever
\* MaxRotatedFiles > 0.
C1_RetentionAfterCleanup ==
  [][\A p \in Procs : CleanupPass(p) => RetentionHolds(M(p))']_vars

\* ---- C2 ------------------------------------------------------------------
\* A step in which caller c writes through the logger's file handle (the JSON
\* bytes or the newline of its entry).
WritesToHandle(c) == WriteJson(c) \/ WriteNewline(c)

\* C2: no Log call observes a half-rotated state: when a writer writes to the
\* logger's file handle, the handle is not one that a rotation has closed and not
\* yet replaced (no file system operation having failed).
C2_NoHalfRotatedWrite ==
  [][\A c \in Callers :
       WritesToHandle(c) /\ faultsLeft = MaxFaults => l.file # "closed"]_vars

\* ---- C3 ------------------------------------------------------------------
\* C3: with rotation enabled and MaxFileSize = M > 0, the live file never
\* exceeds M by more than one entry's size.
C3_LiveFileBounded ==
  l.rotationMgr # NoMgr /\ liveSize # Absent =>
    liveSize <= rm[l.rotationMgr].config.MaxFileSize + MaxEntry

\* ---- C4 ------------------------------------------------------------------
\* The positions inside the physical rotation: close, rename, cleanup (and its
\* warning), reopen, reset.
RotatingPcs == {"rot_close", "rot_rename", "rot_cleanup", "rot_warn", "rot_open",
                "rot_fin"}

Rotating == {p \in Procs : pc[p] \in RotatingPcs}

\* Rotations and configuration updates only, with one more API call than Spec:
\* the logger may drop its rotation manager and create the next one while
\* requests of the first are still queued.
LifecycleInit == StartState(MaxOps + 1, MaxFaults)

LifecycleNext ==
  \/ \E c \in Callers : ForceRotation(c)
  \/ \E c \in Callers : ForceRotationAsync(c)
  \/ \E c \in Callers : ConfigCall(c)
  \/ Serving

LifecycleSpec == LifecycleInit /\ [][LifecycleNext]_vars

\* C4: at most one physical rotation is executing at any instant, whoever runs
\* it: a Log call, ForceRotation, a background worker or a fallback goroutine.
C4_AtMostOneRotation == Cardinality(Rotating) <= 1

\* ---- C5 ------------------------------------------------------------------
\* The entry of the Log call of c would bring the live file above MaxFileSize.
WouldExceed(c) ==
  liveSize + call[c].entrySize > rm[l.rotationMgr].config.MaxFileSize

\* C5: of the Log calls that arrive at a live file which their entry would bring
\* above MaxFileSize, one rotates and the others, serialized behind it, find a
\* fresh file below the limit and write without rotating: a Log call goes into a
\* rotation exactly when its entry would exceed the limit of the file it finds.
C5_OneRotationPerOverflow ==
  [][\A c \in Callers :
       /\ WriteEntryCheck(c)
       /\ l.file = "open" /\ liveSize # Absent /\ l.rotationMgr # NoMgr
       /\ faultsLeft = MaxFaults
       => (pc'[c] = "rot_lock" <=> WouldExceed(c))]_vars

\* ---- C6 ------------------------------------------------------------------
\* What a PerformRotation of manager m that returns nil is to leave behind.
FreshLiveFile(m) ==
  /\ liveSize = 0
  /\ l.file = "open"
  /\ l.currentSize = 0
  /\ rm[m].cachedFileSize = 0
  /\ ~rm[m].pendingRotation

\* C6: after every PerformRotation that returns nil, an empty live file is at
\* basePath, the logger's handle is that open file, cachedFileSize and
\* currentSize are 0 and pendingRotation is false.
C6_FreshFileAfterRotation ==
  [][\A p \in Procs : RotFinish(p) => FreshLiveFile(M(p))']_vars

\* ---- C10 -----------------------------------------------------------------
\* C10: Close() of the rotation manager is idempotent: a call on a manager that
\* is already closed does not panic.
C10_CloseIdempotent ==
  [][\A c \in Callers :
       ManagerClose(c) /\ rm[l.rotationMgr].closed => ~crashed']_vars

\* ---- C7, C8 --------------------------------------------------------------
\* Rotations requested synchronously and asynchronously, with one more API call
\* than Spec; every process that can take a step of serving a rotation
\* eventually takes one (the Go scheduler runs every runnable goroutine).
AsyncInit == StartState(MaxOps + 1, MaxFaults)

AsyncNext ==
  \/ \E c \in Callers : ForceRotation(c)
  \/ \E c \in Callers : AsyncCall(c)
  \/ \E c \in Callers, b \in BOOLEAN : SetAsyncRotation(c, b)
  \/ Serving

Scheduling ==
  /\ \A p \in Procs : WF_vars(RotationStep(p))
  /\ \A w \in Workers : WF_vars(WorkerReceive(w) \/ WorkerSend(w))
  /\ \A g \in Goroutines : WF_vars(GoSend(g))

AsyncSpec == AsyncInit /\ [][AsyncNext]_vars /\ Scheduling

\* C7: the channel returned by PerformRotationAsync or ForceRotationAsync
\* eventually receives its value, whichever path serves the request.
C7_ResponseDelivered ==
  \A r \in Requests : (nreq >= r) ~> (req[r].resp = 1)

\* C8: with async rotation disabled, the channel returned by
\* PerformRotationAsync resolves.
C8_DisabledResolves ==
  \A r \in Requests : (req[r].via = "disabled") ~> (req[r].resp = 1)

\* ---- C9 ------------------------------------------------------------------
\* The one-slot request queue of the logger's manager is full.
QueueFull == Len(rm[l.rotationMgr].chan) = 1

\* C9: a rotation request submitted while the request queue is full returns at
\* once and its rotation is handed to the synchronous fallback, which starts
\* PerformRotation.
C9_FullQueueFallsBack ==
  [][\A c \in Callers :
       AsyncCall(c) /\ QueueFull
       => ~crashed' /\ pc'[GoNames[nreq']] = "rot_lock"]_vars

\* ---- C11 -----------------------------------------------------------------
\* C11: a rotation request issued after Close() of the rotation manager does
\* not crash the process.
C11_SubmitAfterCloseSafe ==
  [][\A c \in Callers :
       AsyncCall(c) /\ rm[l.rotationMgr].closed => ~crashed']_vars

\* ---- C12 -----------------------------------------------------------------
\* Rotations, requests and Close() of the manager, with one more API call than
\* Spec, under the scheduling of AsyncSpec; a worker whose range loop can end
\* does end.
ShutdownInit == StartState(MaxOps + 1, MaxFaults)

ShutdownNext ==
  \/ \E c \in Callers : ForceRotation(c)
  \/ \E c \in Callers : ForceRotationAsync(c)
  \/ \E c \in Callers : ManagerClose(c)
  \/ Background

ShutdownSpec ==
  /\ ShutdownInit /\ [][ShutdownNext]_vars
  /\ Scheduling
  /\ \A w \in Workers : WF_vars(WorkerExit(w))

\* Request r sits in the queue of manager m, which has been closed.
QueuedAtClose(m, r) == rm[m].closed /\ rm[m].chan = <<r>>

\* C12: a request accepted into the worker queue before Close() is still
\* executed and its result is delivered to its response channel (unless the
\* process has panicked meanwhile).
C12_QueuedRequestServed ==
  \A m \in Mgrs, r \in Requests :
    QueuedAtClose(m, r) ~> (req[r].resp = 1 \/ crashed)

\* ---- C13 -----------------------------------------------------------------
\* Requests, Close() of the manager and of the logger, configuration updates,
\* under the scheduling of ShutdownSpec.
RetireInit == StartState(MaxOps, MaxFaults)

RetireNext ==
  \/ \E c \in Callers : ForceRotationAsync(c)
  \/ \E c \in Callers : ManagerClose(c)
  \/ \E c \in Callers : LoggerClose(c)
  \/ \E c \in Callers : ConfigCall(c)
  \/ Background

RetireSpec ==
  /\ RetireInit /\ [][RetireNext]_vars
  /\ Scheduling
  /\ \A w \in Workers : WF_vars(WorkerExit(w))

\* The logger has retired manager m: it has dropped it (UpdateConfig with
\* rotation disabled) or has been closed (l.file is nil).
Retired(m) == m <= nmgr /\ (l.rotationMgr # m \/ l.file = "nil")

\* C13: when the logger retires its rotation manager, the manager's background
\* worker eventually terminates (unless the process has panicked meanwhile).
C13_RetiredWorkerExits ==
  \A m \in Mgrs : Retired(m) ~> (pc[WorkerNames[m]] = "w_exit" \/ crashed)

\* ---- C14 -----------------------------------------------------------------
\* C14: when deleting an old rotated file fails in the cleanup step of a
\* rotation, reporting the warning does not block on a lock the caller already
\* holds: the process that reports does not hold the logger's mutex, which
\* rm.logger.Warn acquires.
C14_WarningNotUnderLoggerMutex ==
  \A p \in Procs : pc[p] = "rot_warn" => l.mutex # p

\* ---- C15 -----------------------------------------------------------------
\* C15: a rotation attempt that failed at the rename or reopen step leaves the
\* rotator able to rotate later: the close step of a later PerformRotation does
\* not fail on the handle the failed attempt left closed.
C15_RotationAfterFailure ==
  [][\A p \in Procs : RotClose(p) => pc'[p] = "rot_rename"]_vars

\* ---- C16 -----------------------------------------------------------------
\* A step in which the rotation run by process p fails: at the close, the
\* rename or the reopen.
RotationFails(p) ==
  \/ RotClose(p) /\ l.file = "closed"
  \/ \E refused \in BOOLEAN : RotRename(p, refused) /\ (refused \/ liveSize = Absent)
  \/ RotOpen(p, TRUE)

\* A step in which the Log call of c decides on a rotation that is bound to
\* fail: the logger's handle is closed and no rotation is in flight that could
\* replace it, so the close step of this rotation fails.
DecidesDoomedRotation(c) ==
  /\ WriteEntryCheck(c) /\ pc'[c] = "rot_lock"
  /\ l.file = "closed"
  /\ \A m \in Mgrs : rm[m].mutex = Free

\* C16: when the rotation triggered inside a Log call fails, the call returns
\* the error without writing any byte of the entry and without a panic, and the
\* call has left the logger's currentSize as it found it.
C16_FailedRotationInLog ==
  [][\A c \in Callers :
       /\ DecidesDoomedRotation(c) => l'.currentSize = l.currentSize
       /\ call[c].op = "log" /\ RotationFails(c) =>
            /\ pc'[c] = "idle" /\ rotErr'[c] = "err" /\ l'.mutex = Free
            /\ liveSize' = liveSize /\ l'.currentSize = l.currentSize
            /\ ~crashed']_vars

\* ---- C17 -----------------------------------------------------------------
\* Logger.GetRotatedFiles: nil without a manager, else a copy of its list.
GetRotatedFiles ==
  IF l.rotationMgr = NoMgr THEN <<>> ELSE rm[l.rotationMgr].rotatedFiles

\* PerformRotation called by writeEntry or ForceRotation, which hold the
\* logger's mutex: its steps but for the warning, at which such a call blocks.
SyncRotationStep(c) ==
  \/ RotLock(c)
  \/ RotClose(c)
  \/ \E refused \in BOOLEAN : RotRename(c, refused)
  \/ \E f \in RefusablePaths : RotCleanup(c, f)
  \/ \E refused \in BOOLEAN : RotOpen(c, refused)
  \/ RotFinish(c)

\* Log calls, forced rotations and UpdateConfig with any configuration a caller
\* may pass, valid or not.
ConfigInit ==
  \E cfg \in Configs : CreateFileLoggerWithConfig(cfg, MaxOps, MaxFaults)

ConfigNext ==
  \/ \E c \in Callers : WriteStep(c)
  \/ \E c \in Callers : ForceRotation(c)
  \/ \E c \in Callers, cfg \in AnyConfigs : LoggerUpdateConfig(c, cfg)
  \/ \E c \in Callers, f \in RefusablePaths : ManagerUpdateConfig(c, f)
  \/ \E c \in Callers : SyncRotationStep(c)
  \/ \E stale \in SUBSET (1..nmgr) : Tick(stale)

ConfigSpec == ConfigInit /\ [][ConfigNext]_vars

\* The rotation manager exists iff the logger's config enables rotation.
ManagerIffEnabled == (l.rotationMgr # NoMgr) <=> l.config.RotationEnabled

\* Without a manager ForceRotation returns an error and starts nothing.
ForceRotationRefused(c) ==
  ForceRotation(c) /\ l.rotationMgr = NoMgr
  => rotErr'[c] = "err" /\ pc'[c] = "idle" /\ UNCHANGED <<l, rm, nrot>>

\* An UpdateConfig whose config is over MaxFileSizeLimit changes nothing.
RejectedUpdateKeepsAll(c, cfg) ==
  LoggerUpdateConfig(c, cfg) /\ cfg.MaxFileSize > MaxFileSizeLimit
  => UNCHANGED <<l, rm, nmgr, pc>>

\* C17: after any sequence of UpdateConfig calls the rotation manager exists
\* iff the current config has RotationEnabled; without a manager
\* GetRotatedFiles is empty and ForceRotation returns an error; an UpdateConfig
\* rejected by validation changes neither the config nor the manager.
C17_ManagerFollowsConfig ==
  /\ [](ManagerIffEnabled /\ (l.rotationMgr = NoMgr => GetRotatedFiles = <<>>))
  /\ [][\A c \in Callers : ForceRotationRefused(c)]_vars
  /\ [][\A c \in Callers, cfg \in AnyConfigs : RejectedUpdateKeepsAll(c, cfg)]_vars

\* Rotation was disabled by an update of a logger created with it, a
\* ForceRotation was then refused, and an invalid config has been rejected.
C17_Witness ==
  /\ nmgr = 1 /\ l.rotationMgr = NoMgr /\ ~l.config.RotationEnabled
  /\ \E c \in Callers : call[c].op = "force" /\ rotErr[c] = "err"
  /\ \E c \in Callers : call[c].op = "rejected"

\* ---- C18 -----------------------------------------------------------------
\* A logger created with an unlimited file size: MaxFileSize 0, or negative,
\* which Validate turns into 0.  Only Log calls are made, more of them than
\* would fill a file of any accepted size limit.
LogCalls == MaxOps + 2

UnlimitedConfigs == {cfg \in AnyConfigs : cfg.MaxFileSize <= 0}

UnlimitedInit ==
  \E cfg \in UnlimitedConfigs : CreateFileLoggerWithConfig(cfg, LogCalls, MaxFaults)

UnlimitedNext ==
  \/ \E c \in Callers : WriteStep(c)
  \/ \E stale \in SUBSET (1..nmgr) : Tick(stale)

UnlimitedSpec == UnlimitedInit /\ [][UnlimitedNext]_vars

\* ShouldRotate returns false for every entry size.
NeverShouldRotate ==
  l.rotationMgr # NoMgr =>
    \A n \in 1..(MaxFileSizeLimit + 1) : ~ShouldRotate(l.rotationMgr, n).rotate

\* No caller is inside PerformRotation.
NoRotationStarted ==
  \A c \in Callers : pc[c] \in {"idle", "we_check", "we_write", "we_nl"}

\* C18: with MaxFileSize = 0 no sequence of Log calls triggers a rotation:
\* ShouldRotate returns false for every entry size, no rotation starts and
\* GetRotatedFiles stays empty.
C18_UnlimitedNeverRotates ==
  /\ NeverShouldRotate
  /\ NoRotationStarted
  /\ nrot = 0
  /\ GetRotatedFiles = <<>>
  /\ \A t \in Paths : disk[t] = 0

\* With a manager, all the Log calls have returned and left more bytes in the
\* live file than any accepted size limit.
C18_Witness ==
  /\ l.rotationMgr # NoMgr
  /\ rm[l.rotationMgr].config.MaxFileSize = 0
  /\ opsLeft = 0
  /\ \A c \in Callers : pc[c] = "idle"
  /\ liveSize > MaxFileSizeLimit
  /\ l.currentSize = liveSize

\* ---- C19 -----------------------------------------------------------------
\* A restart: the logger is created with rotation over a directory that holds
\* any rotated files with any modification times, ties included, and one
\* UpdateConfig call runs the manager's first cleanup pass.
Directories == [Paths -> 0..Cardinality(Paths)]

RestartInit ==
  \E d \in Directories, cfg \in Configs :
    cfg.RotationEnabled /\ CreateFileLoggerIn(d, cfg, 1, MaxFaults)

RestartNext ==
  \/ \E c \in Callers, cfg \in Configs : LoggerUpdateConfig(c, cfg)
  \/ \E c \in Callers, f \in RefusablePaths : ManagerUpdateConfig(c, f)

RestartSpec == RestartInit /\ [][RestartNext]_vars

\* The rotated files in directory d.
OnDisk(d) == {t \in Paths : d[t] # 0}

Listed(files) == {files[i] : i \in 1..Len(files)}

Min(a, b) == IF a < b THEN a ELSE b

\* The cleanup pass of c starts from a list seeded with the k files of the
\* directory and, with MaxRotatedFiles = max > 0, leaves the min(k, max) files
\* of newest modification time, in the list and on disk.
FirstCleanupKeepsNewest(c, f) ==
  ManagerUpdateConfig(c, f) =>
    LET m == M(c)
        max == call[c].config.MaxRotatedFiles
        k == Cardinality(OnDisk(disk))
    IN /\ Len(rm[m].rotatedFiles) = k
       /\ Listed(rm[m].rotatedFiles) = OnDisk(disk)
       /\ max > 0 =>
            /\ Len(rm'[m].rotatedFiles) = Min(k, max)
            /\ Listed(rm'[m].rotatedFiles) = OnDisk(disk')
            /\ OnDisk(disk') \subseteq OnDisk(disk)
            /\ \A kept \in OnDisk(disk'), gone \in OnDisk(disk) \ OnDisk(disk') :
                 disk[kept] >= disk[gone]

\* C19: a manager constructed over a directory with k rotated files lists all
\* of them, and its first cleanup pass with MaxRotatedFiles = m > 0 keeps
\* exactly the min(k, m) files of newest modification time, on disk and in
\* the list.
C19_RestartKeepsNewest ==
  [][\A c \in Callers, f \in Paths \cup {NoFail} : FirstCleanupKeepsNewest(c, f)]_vars

\* ---- C20 -----------------------------------------------------------------
\* Caller c is past the size check of writeEntry (and past the rotation it may
\* have called for) and has not yet written the newline of its entry.
Writing(c) == pc[c] \in {"we_write", "we_nl"}

\* A step of a rotation: the handle is closed or reopened, or the live file is
\* renamed into the rotated files.
RotationTakesPlace ==
  \/ l'.file # l.file
  \/ disk' # disk
  \/ nrot' # nrot
  \/ (liveSize = Absent) # (liveSize' = Absent)

\* Between the JSON bytes of c's entry and its newline nothing but that
\* newline reaches the live file.
ContiguousEntry(c) ==
  pc[c] = "we_nl" /\ liveSize' # liveSize =>
    pc'[c] = "idle" /\ liveSize' = liveSize + 1

\* C20: the per-entry sequence of a Log call is not interleaved with another
\* caller's write nor with a rotation: no rotation takes place between a
\* writer's size check and its write, and the JSON bytes and the newline of
\* an entry land contiguously in the same file.
C20_EntrySequenceAtomic ==
  [][\A c \in Callers :
       /\ Writing(c) => ~RotationTakesPlace
       /\ ContiguousEntry(c)]_vars

\* ---- C21 -----------------------------------------------------------------
\* The invocation of PerformRotation by p has started (it is at rm.mutex.Lock())
\* while the physical rotation of another invocation on the same manager is
\* executing.
Overlaps(p) ==
  /\ pc[p] = "rot_lock"
  /\ \E q \in Rotating \ {p} : M(q) = M(p)

\* The Lock() of p succeeds and p finds pendingRotation false: the step p takes
\* from here starts a physical rotation.
RotatesNext(p) ==
  /\ pc[p] = "rot_lock"
  /\ rm[M(p)].mutex = Free
  /\ ~rm[M(p)].pendingRotation

\* C21: when PerformRotation invocations overlap, only the first performs a
\* physical rotation: when the first has completed its rotation, an invocation
\* that started while it was executing finds the rotation marked pending once
\* it holds the mutex, and returns nil without closing, renaming or reopening
\* anything.
C21_OverlappingRotationSkipped ==
  [][\A p, q \in Procs :
       Overlaps(p) /\ M(q) = M(p) /\ RotFinish(q) => ~RotatesNext(p)']_vars

\* ---- C22 -----------------------------------------------------------------
\* The cleanup pass of UpdateConfig in which the removal of file f is refused:
\* of the files of the directory at most MaxRotatedFiles kept ones and f are
\* left, and the list names no file that the pass deleted.
CleanupGoesOn(c, f) ==
  ManagerUpdateConfig(c, f) /\ f # NoFail =>
    LET m == M(c)
        max == call[c].config.MaxRotatedFiles
    IN /\ Cardinality(OnDisk(disk')) <= max + 1
       /\ Listed(rm'[m].rotatedFiles) \subseteq OnDisk(disk')

\* C22: in a cleanup pass where the deletion of one rotated file fails, the
\* other files beyond the retention limit are still deleted, and the retained
\* list ends up holding only files that were kept or could not be deleted.
C22_CleanupSurvivesFailure ==
  [][\A c \in Callers, f \in Paths : CleanupGoesOn(c, f)]_vars

\* ---- C23 -----------------------------------------------------------------
\* A cleanup pass of manager m deleted the files Deleted; every path it kept in
\* the list names a file at least as new as each of them (a path without a
\* file, whose stat fails, has modification order 0).
Deleted == OnDisk(disk) \ OnDisk(disk')

KeptAreNewest(m) ==
  \A gone \in Deleted, kept \in Listed(rm'[m].rotatedFiles) :
    disk[gone] <= disk'[kept]

\* C23: in every cleanup pass that deletes files, in a rotation or in
\* UpdateConfig, the files kept are the newest by modification time: no deleted
\* file is newer than a kept one, also when the list holds a stale or repeated
\* path.
C23_DeletedAreOldest ==
  [][\A p \in Procs :
       RotCleanup(p, NoFail) \/ ManagerUpdateConfig(p, NoFail)
       => KeptAreNewest(M(p))]_vars

\* ---- C24 -----------------------------------------------------------------
\* The step in which caller c completes the write of its entry: the newline
\* goes through the open handle and l.currentSize is advanced.
EntryWritten(c) == WriteNewline(c) /\ l.file = "open"

\* C24: after each successful write of an entry of n bytes by a Log call the
\* cached size that ShouldRotate compares against the limit has grown by n.
C24_CachedSizeFollowsWrites ==
  [][\A c \in Callers :
       EntryWritten(c) /\ l.rotationMgr # NoMgr
       => rm'[l.rotationMgr].cachedFileSize
            = rm[l.rotationMgr].cachedFileSize + call[c].entrySize]_vars

\* ---- C25 -----------------------------------------------------------------
\* Log calls and asynchronous rotations on a logger created with any file size
\* limit: unlimited, LimitBytes, or one above MaxFileSizeLimit (which
\* NewLoggerWithConfig lets through).
DecisionInit ==
  \E cfg \in AnyConfigs :
    cfg.RotationEnabled /\ CreateFileLoggerWithConfig(cfg, MaxOps, MaxFaults)

DecisionNext ==
  \/ \E c \in Callers : WriteStep(c)
  \/ \E c \in Callers : PerformRotationAsync(c)
  \/ Serving
  \/ \E stale \in SUBSET (1..nmgr) : Tick(stale)

DecisionSpec == DecisionInit /\ [][DecisionNext]_vars

\* The size os.Stat reports for the live file, or the value kept when it fails.
Resynced(cached) == IF liveSize = Absent THEN cached ELSE liveSize

\* The answer for an entry of n bytes from manager m: false when rotation is
\* disabled or pending or the size is unlimited; else cached + n > MaxFileSize,
\* cached being resynchronized when the last sync is too old, and once more
\* when it would exceed and is above 80% of MaxFileSize.
Decision(m, n) ==
  LET max == rm[m].config.MaxFileSize
      first == IF rm[m].sizeSyncDue THEN Resynced(rm[m].cachedFileSize)
               ELSE rm[m].cachedFileSize
      final == IF first + n > max /\ 10 * first > 8 * max
               THEN Resynced(first) ELSE first
  IN /\ rm[m].config.RotationEnabled
     /\ ~rm[m].pendingRotation
     /\ max > 0
     /\ final + n > max

\* C25: ShouldRotate(n) returns false when rotation is disabled, when a
\* rotation is pending or when MaxFileSize <= 0; otherwise it returns
\* cached + n > MaxFileSize, with cached resynchronized first if the last sync
\* is older than the interval, and again if it would exceed and cached is above
\* 80% of MaxFileSize.  writeEntry rotates exactly on that answer.
C25_ShouldRotateDecision ==
  [][\A c \in Callers :
       WriteEntryCheck(c) /\ l.file # "nil" /\ l.rotationMgr # NoMgr
       => (pc'[c] = "rot_lock" <=> Decision(l.rotationMgr, call[c].entrySize))]_vars

\* A Log call goes into a rotation on a cached size above 80% of the limit.
C25_Witness ==
  \E c \in Callers :
    /\ pc[c] = "rot_lock" /\ call[c].op = "log"
    /\ rm[M(c)].cachedFileSize > HighWater(rm[M(c)].config.MaxFileSize)

\* ---- C26 -----------------------------------------------------------------
\* The live file is deleted from outside the program (one of the file system
\* faults); the logger's handle stays open on the unlinked file.
ExternalDelete ==
  /\ ~crashed
  /\ faultsLeft > 0
  /\ liveSize # Absent
  /\ liveSize' = Absent
  /\ faultsLeft' = faultsLeft - 1
  /\ UNCHANGED <<pc, call, rotErr, l, rm, nmgr, req, nreq, disk, now, nrot,
                 crashed, opsLeft>>

\* Log calls with their rotations, one call more than in Spec, the clock, and
\* the loss of the live file.
StatInit == StartState(MaxOps + 1, MaxFaults)

StatNext ==
  \/ \E c \in Callers : WriteStep(c)
  \/ \E c \in Callers : SyncRotationStep(c)
  \/ \E stale \in SUBSET (1..nmgr) : Tick(stale)
  \/ ExternalDelete

StatSpec == StatInit /\ [][StatNext]_vars

\* ShouldRotate(n) of manager m calls syncFileSize: it does not return early,
\* and the last sync is too old or the cached size is close to the limit.
Syncs(m, n) ==
  /\ rm[m].config.RotationEnabled /\ ~rm[m].pendingRotation
  /\ rm[m].config.MaxFileSize > 0
  /\ \/ rm[m].sizeSyncDue
     \/ /\ rm[m].cachedFileSize + n > rm[m].config.MaxFileSize
        /\ rm[m].cachedFileSize > HighWater(rm[m].config.MaxFileSize)

\* C26: when a size synchronization cannot stat the live file, the cached size
\* is 0 after the sync and ShouldRotate decides as for an empty file.
C26_StatFailureMeansEmpty ==
  [][\A c \in Callers :
       /\ WriteEntryCheck(c) /\ l.file # "nil" /\ l.rotationMgr # NoMgr
       /\ Syncs(l.rotationMgr, call[c].entrySize)
       /\ liveSize = Absent
       => /\ rm'[l.rotationMgr].cachedFileSize = 0
          /\ pc'[c] = "rot_lock"
               <=> call[c].entrySize > rm[l.rotationMgr].config.MaxFileSize]_vars

\* ---- C27 -----------------------------------------------------------------
\* No path occurs twice in the list.
NoRepeatedPath(files) == Cardinality(Listed(files)) = Len(files)

\* C27: the list of rotated files never contains the same path twice, after
\* any sequence of rotations, several within one clock second included.
C27_NoRepeatedPath ==
  \A m \in 1..nmgr : NoRepeatedPath(rm[m].rotatedFiles)

\* ---- C28 -----------------------------------------------------------------
\* No process is inside a rotation or a cleanup pass.
NoRotationOrCleanup ==
  \A p \in Procs : pc[p] \notin RotatingPcs \cup {"uc_rm", "uc_warn"}

\* Every listed path names a file on disk.
ListedFilesExist ==
  \A m \in 1..nmgr : Listed(rm[m].rotatedFiles) \subseteq OnDisk(disk)

\* A rotated file on disk is not replaced by another one.
NeverOverwritten ==
  \A t \in Paths : disk[t] # 0 /\ disk'[t] # 0 => disk'[t] = disk[t]

\* C28: whenever no rotation or cleanup is executing, every path in the list
\* of rotated files names a file on disk, and the rotated files are there with
\* their content: a rotation never overwrites one, and a cleanup never removes
\* a file that stays listed.
C28_ListedFilesIntact ==
  /\ [](NoRotationOrCleanup => ListedFilesExist)
  /\ [][NeverOverwritten]_vars

\* ---- C29 -----------------------------------------------------------------
\* Process p is at the l.mutex.Lock() of writeEntry, called through
\* rm.logger.Warn from PerformRotation or from rm.UpdateConfig.
AtLoggerLock(p) == pc[p] \in {"rot_warn", "uc_warn"}

HoldsRotationMutex(p) == \E m \in 1..nmgr : rm[m].mutex = p

\* Process q waits for the rotation mutex that p holds.
WaitsForRotationMutex(q, p) ==
  /\ pc[q] \in {"rot_lock", "uc_rm"}
  /\ rm[M(q)].mutex = p

\* p waits for the logger's mutex, whose holder is p itself or waits for the
\* rotation mutex that p holds: none of them can ever go on.
WaitForEver(p) ==
  /\ AtLoggerLock(p)
  /\ \E q \in Procs :
       /\ l.mutex = q
       /\ q = p \/ WaitsForRotationMutex(q, p)

\* C29: locks are taken in the order logger mutex, rotation mutex: no thread
\* tries to acquire the logger's mutex while it holds a rotation manager's
\* mutex, and no interleaving reaches a state in which threads wait on each
\* other for ever.
C29_LockOrder ==
  \A p \in Procs :
    /\ ~(AtLoggerLock(p) /\ HoldsRotationMutex(p))
    /\ ~WaitForEver(p)

\* ---- C30 -----------------------------------------------------------------
\* Logger.Close has returned: l.file is nil, which nothing else assigns.
LoggerClosed == l.file = "nil"

\* C30: once Logger.Close() has returned, the logger holds no open file for the
\* rest of its life: no later Log, ForceRotation or asynchronous rotation
\* reopens the live file, renames it or writes to it.
C30_ClosedStaysClosed ==
  [][LoggerClosed => LoggerClosed' /\ liveSize' = liveSize]_vars
====
